---- MODULE Spec2Model ----
(***************************************************************************)
(* Model of the drone edge aggregator (src/drone_edge/drone.py).           *)
(*                                                                         *)
(* Threads of DroneEdge.start(): the sensor handlers (_handle_sensor), the *)
(* process loop (_process_loop), the battery loop (_battery_simulation)    *)
(* and the forward loop (_forward_loop); the GUI thread issues the two     *)
(* commands _on_threshold_change and _reset_battery.  All of them share    *)
(* one threading.Lock.  A critical section that contains no blocking call  *)
(* is one action guarded by lock = "free"; the forward loop's critical     *)
(* section contains the network send, so it is split at the send and the   *)
(* lock is held in between.                                                *)
(*                                                                         *)
(* Units: the battery level and the threshold are counted in half percent  *)
(* (the decay step, 0.5), so 100.0 is 200 and the default threshold 20.0   *)
(* is 40.  Averages are counted in hundredths (round(x, 2)).               *)
(***************************************************************************)
EXTENDS Integers, Sequences, FiniteSets, TLC

\* Bounds of the model.
MaxReadings == 2
rolling_window == 2

MaxChunk == 2
MaxTicks == 2

\* The sensor connections the listener accepts.
Conns == {1, 2}

\* Program constants.
BatteryFull == 200
BatteryStep == 1
DefaultThreshold == 40
TempLow == -10
TempHigh == 60
HumidLow == 0
HumidHigh == 100

\* Values the GUI slider hands to _on_threshold_change (0..100 percent).
SliderValues == {40, 200}

\* Readings the sensors send (temperature and humidity in whole units).
ReadingInputs ==
    { [sensor_id |-> 1, temperature |-> 20, humidity |-> 50],
      [sensor_id |-> 2, temperature |-> 61, humidity |-> 50] }

NoReading == [sensor_id |-> 0, temperature |-> 0, humidity |-> 0]

\* Readings on and next to the anomaly bounds, and one in the middle.
BoundaryReadings ==
    { [sensor_id |-> 1, temperature |-> t, humidity |-> 50] :
          t \in {-11, 20, 61} }
    \cup
    { [sensor_id |-> 1, temperature |-> 20, humidity |-> h] :
          h \in {-1, 101} }
    \cup
    { [sensor_id |-> 1, temperature |-> 60, humidity |-> 100],
      [sensor_id |-> 1, temperature |-> -10, humidity |-> 0] }

\* The default of --rolling_window.
DefaultWindow == 10

\* The readings of the end-to-end scenario, in the order of their arrival:
\* reading #1 has temperature 100, the others are within the bounds.
ScenarioReadings ==
    [i \in 1..12 |->
        [sensor_id |-> 1,
         temperature |-> IF i = 1 THEN 100 ELSE 20 + i,
         humidity |-> 40 + i]]

\* The bytes of a stream, in pieces that a receive does not split further:
\*   "A"  {"sensor_id": 1, "temperature": 20,
\*   "H"  {"sensor_id": 2, "temperature": 61,
\*   "B"   "humidity": 50}
\*   "E"  {"sensor_id": 3}
\*   "X"  the byte 0xff, which is not UTF-8
\*   "LF" the newline byte
LF == "LF"

\* The streams the sensors' peers send.
StreamInputs ==
    { << "A", "B", LF, "H", "B", LF >>,
      << "E", LF, "A", "B", LF >>,
      << "X", LF, "A", "B", LF >>,
      << "B", LF, "A", "B", LF, "A" >> }

VARIABLES
    sensor_data,        \* Queue(): readings waiting for the process loop
    readings,           \* deque(maxlen=rolling_window): the window
    anomalies,          \* list of anomalous readings
    battery,            \* battery level, half percent
    returning,          \* operating mode: TRUE = Returning, FALSE = Active
    battery_threshold,  \* threshold, half percent
    forward_queue,      \* list of summaries awaiting transmission
    lock,               \* holder of self.lock: "free" or "forward"
    proc_pc,            \* process loop: "get" or "compute"
    reading,            \* the reading the process loop took from sensor_data
    summary,            \* the summary the process loop computed last
    fwd_pc,             \* forward loop: "sleep" or "sending"
    batch,              \* the forward loop's snapshot
    central,            \* batches whose _send_to_central returned normally
    appended,           \* history: every summary appended to forward_queue
    ingested,           \* history: number of readings ingested
    processed,          \* history: number of readings processed (the clock)
    low_warnings,       \* history: "Battery low" warnings since the last reset
    ingest_log,         \* history: every reading ingested, in order
    maxlen,             \* the window's capacity (readings.maxlen)
    conn,               \* per connection: state of its socket and handler
    stream,             \* per connection: the bytes its peer sends
    pos,                \* per connection: number of bytes received so far
    buf,                \* per connection: the handler's buffer
    got,                \* history, per connection: the readings it ingested
    last_op             \* history: the operation that made the last step

vars == << sensor_data, readings, anomalies, battery, returning,
           battery_threshold, forward_queue, lock, proc_pc, reading,
           fwd_pc, batch, central, appended, ingested, processed,
           low_warnings, ingest_log, maxlen, conn, stream, pos, buf, got,
           summary, last_op >>

\* The configuration and the connections' variables.
net_vars == << maxlen, conn, stream, pos, buf, got >>

\* The process loop's local summary.
NoSummary == [avg_temp |-> 0, avg_humid |-> 0, last_update |-> 0]

----------------------------------------------------------------------------
\* Helpers.
Max(a, b) == IF a >= b THEN a ELSE b

Range(s) == { s[i] : i \in 1..Len(s) }

RECURSIVE SumOf(_, _)
SumOf(s, field) ==
    IF s = << >> THEN 0 ELSE s[1][field] + SumOf(Tail(s), field)

RECURSIVE Flatten(_)
Flatten(ss) == IF ss = << >> THEN << >> ELSE ss[1] \o Flatten(Tail(ss))

\* Mutant: a plain list, nothing is evicted.
DequeAppend_unbounded(d, x, n) == Append(d, x)

\* Mutant: at capacity the newest entry is replaced, not the oldest.
DequeAppend_newest(d, x, n) ==
    IF n = 0 THEN d
    ELSE IF Len(d) >= n THEN Append(SubSeq(d, 1, Len(d) - 1), x)
    ELSE Append(d, x)

\* Mutant: at capacity the new entry is rejected.
DequeAppend_rejecting(d, x, n) ==
    IF Len(d) >= n THEN d ELSE Append(d, x)

\* deque(maxlen=n).append(x): drops the oldest entry when full.
DequeAppend(d, x, n) ==
    IF n = 0 THEN d
    ELSE IF Len(d) >= n THEN Append(Tail(d), x)
    ELSE Append(d, x)

\* round(s / n, 2) in hundredths: nearest, ties to even.
Round2(s, n) ==
    LET q == (100 * s) \div n
        r == (100 * s) % n
    IN  IF 2 * r < n THEN q
        ELSE IF 2 * r > n THEN q + 1
        ELSE IF q % 2 = 0 THEN q ELSE q + 1

\* Mutant: the anomalous readings are left out of the average.
Average_filtered(w, field) ==
    LET kept == SelectSeq(w, LAMBDA r :
                    /\ r.temperature >= TempLow /\ r.temperature <= TempHigh
                    /\ r.humidity >= HumidLow /\ r.humidity <= HumidHigh)
    IN  IF kept # << >> THEN Round2(SumOf(kept, field), Len(kept)) ELSE 0

\* Mutant: the sum is divided by the capacity, not by the length.
Average_bycapacity(w, field) ==
    IF w # << >> THEN Round2(SumOf(w, field), maxlen) ELSE 0

\* The averages of the window, (0.0, 0.0) when it is empty.
Average(w, field) ==
    IF w # << >> THEN Round2(SumOf(w, field), Len(w)) ELSE 0

\* Mutant: the anomaly test is made only while the mode is Active.
IsAnomaly_active(r) ==
    /\ ~returning
    /\ \/ r.temperature < TempLow
       \/ r.temperature > TempHigh
       \/ r.humidity < HumidLow
       \/ r.humidity > HumidHigh

\* Mutant: the bounds taken as exclusive.
IsAnomaly_exclusive(r) ==
    \/ r.temperature <= TempLow
    \/ r.temperature >= TempHigh
    \/ r.humidity <= HumidLow
    \/ r.humidity >= HumidHigh

\* The anomaly test.
IsAnomaly(r) ==
    \/ r.temperature < TempLow
    \/ r.temperature > TempHigh
    \/ r.humidity < HumidLow
    \/ r.humidity > HumidHigh

\* {**reading, "type": "anomaly"}
Anomaly(r) ==
    [sensor_id |-> r.sensor_id, temperature |-> r.temperature,
     humidity |-> r.humidity, type |-> "anomaly"]

Summary(w, t) ==
    [avg_temp |-> Average(w, "temperature"),
     avg_humid |-> Average(w, "humidity"),
     last_update |-> t]

\* A parsed value that has the keys the process loop reads.
WellFormed(v) == {"temperature", "humidity"} \subseteq DOMAIN v

\* line.decode("utf-8") raises UnicodeDecodeError.
DecodeFails(line) == \E i \in 1..Len(line) : line[i] = "X"

\* json.loads(text) returns a value (otherwise it raises JSONDecodeError).
LoadsOk(line) ==
    line \in { << "A", "B" >>, << "H", "B" >>, << "E" >> }

\* json.loads(line.decode("utf-8")), where it returns.
Loads(line) ==
    IF line = << "A", "B" >>
    THEN [sensor_id |-> 1, temperature |-> 20, humidity |-> 50]
    ELSE IF line = << "H", "B" >>
    THEN [sensor_id |-> 2, temperature |-> 61, humidity |-> 50]
    ELSE [sensor_id |-> 3]

\* b"\n" in buf
HasLine(b) == \E i \in 1..Len(b) : b[i] = LF

\* The index of the first newline of b.
FirstLF(b) == CHOOSE i \in 1..Len(b) :
                 b[i] = LF /\ \A j \in 1..(i - 1) : b[j] # LF

\* line, buf = buf.split(b"\n", 1)
SplitLine(b) == SubSeq(b, 1, FirstLF(b) - 1)

SplitRest(b) == SubSeq(b, FirstLF(b) + 1, Len(b))

----------------------------------------------------------------------------
\* DroneEdge.__init__, whatever the window capacity.
InitCommon ==
    /\ sensor_data = << >>
    /\ readings = << >>
    /\ anomalies = << >>
    /\ battery = BatteryFull
    /\ returning = FALSE
    /\ battery_threshold = DefaultThreshold
    /\ forward_queue = << >>
    /\ lock = "free"
    /\ proc_pc = "get"
    /\ reading = NoReading
    /\ summary = NoSummary
    /\ fwd_pc = "sleep"
    /\ batch = << >>
    /\ central = << >>
    /\ appended = << >>
    /\ ingested = 0
    /\ processed = 0
    /\ low_warnings = 0
    /\ ingest_log = << >>
    /\ conn = [c \in Conns |-> "none"]
    /\ stream = [c \in Conns |-> << >>]
    /\ pos = [c \in Conns |-> 0]
    /\ buf = [c \in Conns |-> << >>]
    /\ got = [c \in Conns |-> << >>]
    /\ last_op = "init"

\* The capacity of the run.
Init ==
    /\ InitCommon
    /\ maxlen = rolling_window

\* _handle_sensor: one decoded line, put and append in one critical section.
HandleSensor(r) ==
    /\ lock = "free"
    /\ ingested < MaxReadings
    /\ sensor_data' = Append(sensor_data, r)
    /\ readings' = DequeAppend(readings, r, maxlen)
    /\ ingested' = ingested + 1
    /\ ingest_log' = Append(ingest_log, r)
    /\ last_op' = "ingest"
    /\ UNCHANGED << anomalies, battery, returning, battery_threshold,
                    forward_queue, lock, proc_pc, reading, fwd_pc, batch,
                    central, appended, processed >>
    /\ UNCHANGED << low_warnings, net_vars >>
    /\ UNCHANGED summary

\* _start_sensor_server: a connection is accepted and its handler started;
\* s is what the peer is going to send on it.
Accept(c, s) ==
    /\ conn[c] = "none"
    /\ conn' = [conn EXCEPT ![c] = "open"]
    /\ stream' = [stream EXCEPT ![c] = s]
    /\ last_op' = "accept"
    /\ UNCHANGED << sensor_data, readings, anomalies, battery, returning,
                    battery_threshold, forward_queue, lock, proc_pc, reading,
                    fwd_pc, batch, central, appended, ingested, processed,
                    low_warnings, ingest_log, maxlen, pos, buf, got >>
    /\ UNCHANGED summary

\* _handle_sensor: conn.recv returns the next n bytes; buf += data.
Recv(c, n) ==
    /\ conn[c] = "open"
    /\ ~HasLine(buf[c])
    /\ pos[c] + n <= Len(stream[c])
    /\ buf' = [buf EXCEPT
                 ![c] = @ \o SubSeq(stream[c], pos[c] + 1, pos[c] + n)]
    /\ pos' = [pos EXCEPT ![c] = @ + n]
    /\ last_op' = "recv"
    /\ UNCHANGED << sensor_data, readings, anomalies, battery, returning,
                    battery_threshold, forward_queue, lock, proc_pc, reading,
                    fwd_pc, batch, central, appended, ingested, processed,
                    low_warnings, ingest_log, maxlen, conn, stream, got >>
    /\ UNCHANGED summary

\* The handler's state after line.decode raised UnicodeDecodeError.
AfterDecodeError == "crashed"

\* _handle_sensor: one pass of `while b"\n" in buf`.
HandleLine(c) ==
    /\ conn[c] = "open"
    /\ HasLine(buf[c])
    /\ LET line == SplitLine(buf[c])
           rest == SplitRest(buf[c])
       IN  IF DecodeFails(line)
           THEN \* UnicodeDecodeError is not caught: the handler ends.
                /\ conn' = [conn EXCEPT ![c] = AfterDecodeError]
                /\ buf' = [buf EXCEPT ![c] = rest]
                /\ last_op' = "decode_error"
                /\ UNCHANGED << sensor_data, readings, ingested, ingest_log,
                                got >>
           ELSE IF ~LoadsOk(line)
           THEN \* JSONDecodeError: a warning, the loop goes on.
                /\ buf' = [buf EXCEPT ![c] = rest]
                /\ last_op' = "warning"
                /\ UNCHANGED << sensor_data, readings, ingested, ingest_log,
                                got, conn >>
           ELSE \* with self.lock: put and append.
                /\ lock = "free"
                /\ buf' = [buf EXCEPT ![c] = rest]
                /\ sensor_data' = Append(sensor_data, Loads(line))
                /\ readings' = DequeAppend(readings, Loads(line), maxlen)
                /\ ingested' = ingested + 1
                /\ ingest_log' = Append(ingest_log, Loads(line))
                /\ got' = [got EXCEPT ![c] = Append(@, Loads(line))]
                /\ last_op' = "ingest"
                /\ UNCHANGED conn
    /\ UNCHANGED << anomalies, battery, returning, battery_threshold,
                    forward_queue, lock, proc_pc, reading, fwd_pc, batch,
                    central, appended, processed, low_warnings, maxlen,
                    stream, pos >>
    /\ UNCHANGED summary

\* _handle_sensor: recv returns b"" (the peer closed); the handler ends.
Close(c) ==
    /\ conn[c] = "open"
    /\ ~HasLine(buf[c])
    /\ pos[c] = Len(stream[c])
    /\ conn' = [conn EXCEPT ![c] = "closed"]
    /\ last_op' = "close"
    /\ UNCHANGED << sensor_data, readings, anomalies, battery, returning,
                    battery_threshold, forward_queue, lock, proc_pc, reading,
                    fwd_pc, batch, central, appended, ingested, processed,
                    low_warnings, ingest_log, maxlen, stream, pos, buf, got >>
    /\ UNCHANGED summary

\* Mutant: a fault on one connection ends every open reader.
Fault_all(c) ==
    /\ conn[c] = "open"
    /\ ~HasLine(buf[c])
    /\ conn' = [d \in Conns |->
                  IF conn[d] = "open" THEN "faulted" ELSE conn[d]]
    /\ last_op' = "fault"
    /\ UNCHANGED << sensor_data, readings, anomalies, battery, returning,
                    battery_threshold, forward_queue, lock, proc_pc, reading,
                    fwd_pc, batch, central, appended, ingested, processed,
                    low_warnings, ingest_log, maxlen, stream, pos, buf, got >>
    /\ UNCHANGED summary

\* _handle_sensor: recv raises (connection reset); the handler ends.
Fault(c) ==
    /\ conn[c] = "open"
    /\ ~HasLine(buf[c])
    /\ conn' = [conn EXCEPT ![c] = "faulted"]
    /\ last_op' = "fault"
    /\ UNCHANGED << sensor_data, readings, anomalies, battery, returning,
                    battery_threshold, forward_queue, lock, proc_pc, reading,
                    fwd_pc, batch, central, appended, ingested, processed,
                    low_warnings, ingest_log, maxlen, stream, pos, buf, got >>
    /\ UNCHANGED summary

\* Mutant: taking a reading from the pending queue also takes the oldest
\* entry out of the window.
ProcessGet_popping ==
    /\ proc_pc = "get"
    /\ sensor_data # << >>
    /\ reading' = Head(sensor_data)
    /\ sensor_data' = Tail(sensor_data)
    /\ readings' = IF readings = << >> THEN readings ELSE Tail(readings)
    /\ proc_pc' = "compute"
    /\ last_op' = "get"
    /\ UNCHANGED << anomalies, battery, returning,
                    battery_threshold, forward_queue, lock, fwd_pc, batch,
                    central, appended, ingested, processed >>
    /\ UNCHANGED << low_warnings, ingest_log, net_vars >>
    /\ UNCHANGED summary

\* _process_loop: sensor_data.get(), outside the lock.
ProcessGet ==
    /\ proc_pc = "get"
    /\ sensor_data # << >>
    /\ reading' = Head(sensor_data)
    /\ sensor_data' = Tail(sensor_data)
    /\ proc_pc' = "compute"
    /\ last_op' = "get"
    /\ UNCHANGED << readings, anomalies, battery, returning,
                    battery_threshold, forward_queue, lock, fwd_pc, batch,
                    central, appended, ingested, processed >>
    /\ UNCHANGED << low_warnings, ingest_log, net_vars >>
    /\ UNCHANGED summary

\* Mutant: the summary is queued whatever the mode.
QueuesSummary_always == TRUE

\* Whether the process loop queues the summary it computed.
QueuesSummary == ~returning

\* _process_loop: the critical section (averages, anomaly, summary).
ProcessCompute ==
    /\ proc_pc = "compute"
    /\ lock = "free"
    /\ WellFormed(reading)
    /\ \A i \in 1..Len(readings) : WellFormed(readings[i])
    /\ summary' = Summary(readings, processed + 1)
    /\ anomalies' = IF IsAnomaly(reading)
                    THEN Append(anomalies, Anomaly(reading))
                    ELSE anomalies
    /\ IF QueuesSummary
       THEN /\ forward_queue' = Append(forward_queue, summary')
            /\ appended' = Append(appended, summary')
       ELSE UNCHANGED << forward_queue, appended >>
    /\ processed' = processed + 1
    /\ proc_pc' = "get"
    /\ reading' = NoReading
    /\ last_op' = "process"
    /\ UNCHANGED << sensor_data, readings, battery, returning,
                    battery_threshold, lock, fwd_pc, batch, central,
                    ingested >>
    /\ UNCHANGED << low_warnings, ingest_log, net_vars >>

\* _process_loop: r["temperature"] or reading["temperature"] raises inside
\* the critical section; the lock is released and the thread ends.
ProcessCrash ==
    /\ proc_pc = "compute"
    /\ lock = "free"
    /\ \/ ~WellFormed(reading)
       \/ \E i \in 1..Len(readings) : ~WellFormed(readings[i])
    /\ proc_pc' = "dead"
    /\ last_op' = "process_crash"
    /\ UNCHANGED << sensor_data, readings, anomalies, battery, returning,
                    battery_threshold, forward_queue, lock, reading, fwd_pc,
                    batch, central, appended, ingested, processed >>
    /\ UNCHANGED << low_warnings, ingest_log, net_vars >>
    /\ UNCHANGED summary

\* Mutant: the decay without the floor.
Decay_nofloor(level) == level - BatteryStep

\* The level after one decay step.
Decay(level) == Max(0, level - BatteryStep)

\* Mutant: the mode recomputed from the level at every tick.
ModeAfterTick_recomputed(level, threshold, mode) == level <= threshold

\* Mutant: the comparison made strict.
ModeAfterTick_strict(level, threshold, mode) ==
    IF level < threshold /\ ~mode THEN TRUE ELSE mode

\* The mode after a battery tick that left the level at `level`.
ModeAfterTick(level, threshold, mode) ==
    IF level <= threshold /\ ~mode THEN TRUE ELSE mode

\* _battery_simulation: one tick.
BatterySimulation ==
    /\ lock = "free"
    /\ battery' = Decay(battery)
    /\ returning' = ModeAfterTick(battery', battery_threshold, returning)
    /\ low_warnings' = IF returning' /\ ~returning
                       THEN low_warnings + 1 ELSE low_warnings
    /\ last_op' = "battery"
    /\ UNCHANGED << sensor_data, readings, anomalies, battery_threshold,
                    forward_queue, lock, proc_pc, reading, fwd_pc, batch,
                    central, appended, ingested, processed >>
    /\ UNCHANGED << ingest_log, net_vars >>
    /\ UNCHANGED summary

\* Mutant: the forward tick ignores the mode.
ForwardCondition_anymode == forward_queue # << >>

\* The forward tick's condition for sending.
ForwardCondition == ~returning /\ forward_queue # << >>

\* Mutant: the lock is released before _send_to_central runs.
LockDuringSend_released == "free"

\* The holder of the lock while _send_to_central runs.
LockDuringSend == "forward"

\* _forward_loop: a tick that takes the lock, snapshots and starts sending.
ForwardTick ==
    /\ fwd_pc = "sleep"
    /\ lock = "free"
    /\ ForwardCondition
    /\ batch' = forward_queue
    /\ fwd_pc' = "sending"
    /\ lock' = LockDuringSend
    /\ last_op' = "forward"
    /\ UNCHANGED << sensor_data, readings, anomalies, battery, returning,
                    battery_threshold, forward_queue, proc_pc, reading,
                    central, appended, ingested, processed >>
    /\ UNCHANGED << low_warnings, ingest_log, net_vars >>
    /\ UNCHANGED summary

\* _forward_loop: a tick that finds nothing to do.
ForwardSkip ==
    /\ fwd_pc = "sleep"
    /\ lock = "free"
    /\ ~ForwardCondition
    /\ last_op' = "skip"
    /\ UNCHANGED << sensor_data, readings, anomalies, battery, returning,
                    battery_threshold, forward_queue, lock, proc_pc,
                    reading, fwd_pc, batch, central, appended, ingested,
                    processed >>
    /\ UNCHANGED << low_warnings, ingest_log, net_vars >>
    /\ UNCHANGED summary

\* _send_to_central returned: forward_queue.clear(), lock released.
SendOk ==
    /\ fwd_pc = "sending"
    /\ central' = Append(central, batch)
    /\ forward_queue' = << >>
    /\ fwd_pc' = "sleep"
    /\ lock' = "free"
    /\ batch' = << >>
    /\ last_op' = "sent"
    /\ UNCHANGED << sensor_data, readings, anomalies, battery, returning,
                    battery_threshold, proc_pc, reading, appended, ingested,
                    processed >>
    /\ UNCHANGED << low_warnings, ingest_log, net_vars >>
    /\ UNCHANGED summary

\* Mutant: the failed batch is put back in the opposite order.
QueueAfterFailure_reversed(q) == [i \in 1..Len(q) |-> q[Len(q) + 1 - i]]

\* Mutant: the queue is cleared whether or not the send raised.
QueueAfterFailure_cleared(q) == << >>

\* The queue after _send_to_central raised.
QueueAfterFailure(q) == q

\* Mutant: the lock is not released when the send raised.
SendFail_lockheld ==
    /\ fwd_pc = "sending"
    /\ fwd_pc' = "sleep"
    /\ batch' = << >>
    /\ last_op' = "failed"
    /\ UNCHANGED << sensor_data, readings, anomalies, battery, returning,
                    battery_threshold, forward_queue, lock, proc_pc, reading,
                    central, appended, ingested, processed >>
    /\ UNCHANGED << low_warnings, ingest_log, net_vars, summary >>

\* _send_to_central raised (connect, send or timeout): logged, lock released.
SendFail ==
    /\ fwd_pc = "sending"
    /\ forward_queue' = QueueAfterFailure(forward_queue)
    /\ fwd_pc' = "sleep"
    /\ lock' = "free"
    /\ batch' = << >>
    /\ last_op' = "failed"
    /\ UNCHANGED << sensor_data, readings, anomalies, battery, returning,
                    battery_threshold, proc_pc, reading, central, appended,
                    ingested, processed >>
    /\ UNCHANGED << low_warnings, ingest_log, net_vars >>
    /\ UNCHANGED summary

\* Mutant: the threshold change re-evaluates the mode at once.
OnThresholdChange_eager(val) ==
    /\ lock = "free"
    /\ battery_threshold' = val
    /\ returning' = (returning \/ battery <= val)
    /\ last_op' = "threshold"
    /\ UNCHANGED << sensor_data, readings, anomalies, battery,
                    forward_queue, lock, proc_pc, reading, fwd_pc, batch,
                    central, appended, ingested, processed, low_warnings >>
    /\ UNCHANGED << ingest_log, net_vars >>
    /\ UNCHANGED summary

\* DroneGUI._on_threshold_change.
OnThresholdChange(val) ==
    /\ lock = "free"
    /\ battery_threshold' = val
    /\ last_op' = "threshold"
    /\ UNCHANGED << sensor_data, readings, anomalies, battery, returning,
                    forward_queue, lock, proc_pc, reading, fwd_pc, batch,
                    central, appended, ingested, processed >>
    /\ UNCHANGED << low_warnings, ingest_log, net_vars >>
    /\ UNCHANGED summary

\* Mutant: the reset also empties the forward queue.
ResetBattery_clearing ==
    /\ lock = "free"
    /\ battery' = BatteryFull
    /\ returning' = FALSE
    /\ forward_queue' = << >>
    /\ low_warnings' = 0
    /\ last_op' = "reset"
    /\ UNCHANGED << sensor_data, readings, anomalies, battery_threshold,
                    lock, proc_pc, reading, fwd_pc, batch, central,
                    appended, ingested, processed >>
    /\ UNCHANGED << ingest_log, net_vars >>
    /\ UNCHANGED summary

\* DroneGUI._reset_battery.
ResetBattery ==
    /\ lock = "free"
    /\ battery' = BatteryFull
    /\ returning' = FALSE
    /\ low_warnings' = 0
    /\ last_op' = "reset"
    /\ UNCHANGED << sensor_data, readings, anomalies, battery_threshold,
                    forward_queue, lock, proc_pc, reading, fwd_pc, batch,
                    central, appended, ingested, processed >>
    /\ UNCHANGED << ingest_log, net_vars >>
    /\ UNCHANGED summary

Next ==
    \/ \E r \in ReadingInputs : HandleSensor(r)
    \/ ProcessGet
    \/ ProcessCompute
    \/ BatterySimulation
    \/ ForwardTick
    \/ ForwardSkip
    \/ SendOk
    \/ SendFail
    \/ \E val \in SliderValues : OnThresholdChange(val)
    \/ ResetBattery

Spec == Init /\ [][Next]_vars

\* A battery tick within the first MaxTicks levels below full.
BatteryTick ==
    /\ battery > BatteryFull - MaxTicks
    /\ BatterySimulation

\* The system of Spec with the battery ticks bounded.
NextLive ==
    \/ \E r \in ReadingInputs : HandleSensor(r)
    \/ ProcessGet
    \/ ProcessCompute
    \/ BatteryTick
    \/ ForwardTick
    \/ ForwardSkip
    \/ SendOk
    \/ SendFail
    \/ \E val \in SliderValues : OnThresholdChange(val)
    \/ ResetBattery

\* The forward loop wakes up after every forward_interval, and a send ends
\* by returning or by raising (timeout=5).
LiveSpec ==
    /\ Init
    /\ [][NextLive]_vars
    /\ WF_vars(ForwardTick)
    /\ WF_vars(SendOk \/ SendFail)

\* Every capacity up to the bound, the empty window (capacity 0) included.
InitAggregator ==
    /\ InitCommon
    /\ maxlen \in 0..rolling_window

\* The aggregator and the anomaly detector on the boundary readings, with
\* the mode switch.
NextAggregator ==
    \/ \E r \in BoundaryReadings : HandleSensor(r)
    \/ ProcessGet
    \/ ProcessCompute
    \/ BatteryTick
    \/ \E val \in SliderValues : OnThresholdChange(val)
    \/ ResetBattery

SpecAggregator == InitAggregator /\ [][NextAggregator]_vars

\* The system of LiveSpec's steps under every capacity up to the bound.
SpecCapacity == InitAggregator /\ [][NextLive]_vars

\* The system with its sensor connections: the ingestion of Spec refined to
\* accept, receive, split and decode, with the GUI left alone.
NextSensors ==
    \/ \E c \in Conns, s \in StreamInputs : Accept(c, s)
    \/ \E c \in Conns, n \in 1..MaxChunk : Recv(c, n)
    \/ \E c \in Conns : HandleLine(c)
    \/ \E c \in Conns : Close(c)
    \/ \E c \in Conns : Fault(c)
    \/ ProcessGet
    \/ ProcessCompute
    \/ ProcessCrash
    \/ BatteryTick
    \/ ForwardTick
    \/ ForwardSkip
    \/ SendOk
    \/ SendFail

SpecSensors == Init /\ [][NextSensors]_vars

\* The run with the default capacity.
InitScenario ==
    /\ InitCommon
    /\ maxlen = DefaultWindow

\* _handle_sensor: the next reading of the scenario, put and append in one
\* critical section.
HandleScenario ==
    /\ lock = "free"
    /\ ingested < Len(ScenarioReadings)
    /\ sensor_data' = Append(sensor_data, ScenarioReadings[ingested + 1])
    /\ readings' = DequeAppend(readings, ScenarioReadings[ingested + 1],
                               maxlen)
    /\ ingested' = ingested + 1
    /\ ingest_log' = Append(ingest_log, ScenarioReadings[ingested + 1])
    /\ last_op' = "ingest"
    /\ UNCHANGED << anomalies, battery, returning, battery_threshold,
                    forward_queue, lock, proc_pc, reading, fwd_pc, batch,
                    central, appended, processed >>
    /\ UNCHANGED << low_warnings, net_vars, summary >>

\* The end-to-end scenario: the twelve readings arrive in order while the
\* process loop runs.
NextScenario ==
    \/ HandleScenario
    \/ ProcessGet
    \/ ProcessCompute

SpecScenario == InitScenario /\ [][NextScenario]_vars

----------------------------------------------------------------------------
TypeOK ==
    /\ battery \in 0..BatteryFull
    /\ returning \in BOOLEAN
    /\ lock \in {"free", "forward"}
    /\ proc_pc \in {"get", "compute", "dead"}
    /\ fwd_pc \in {"sleep", "sending"}
    /\ Len(readings) <= maxlen
    /\ ingested = Len(ingest_log)

----------------------------------------------------------------------------
\* Properties.
IsPrefix(a, b) == Len(a) <= Len(b) /\ SubSeq(b, 1, Len(a)) = a

\* The summaries of the batches that were transmitted successfully.
Delivered == Flatten(central)

\* The summaries appended so far that no successful batch carried.
Undelivered == SubSeq(appended, Len(Delivered) + 1, Len(appended))

\* C1: every summary ever appended to the ForwardQueue is still in the queue
\* or was part of a batch whose transmission completed successfully; entries
\* leave the queue only in the step that completes a successful transmission,
\* and that step removes exactly the snapshot it sent.
C1_NoSummaryDropped ==
    /\ [](/\ Range(appended) = Range(Delivered) \cup Range(forward_queue)
          /\ Len(appended) = Len(Delivered) + Len(forward_queue))
    /\ [][ (~IsPrefix(forward_queue, forward_queue'))
             => /\ last_op' = "sent"
                /\ central' = Append(central, batch)
                /\ forward_queue = batch \o forward_queue' ]_vars

\* C1 witness: a batch was transmitted and the queue has filled again.
C1_Witness ==
    last_op = "process" /\ central # << >> /\ forward_queue # << >>

\* C2: a forward tick whose transmission fails leaves the queue as it was
\* before the tick (the snapshot) followed by what was appended during the
\* tick, loses and clears nothing, and the forward loop goes on to its next
\* tick, which can attempt the transmission again.
C2_FailureKeepsQueue ==
    /\ [][ last_op' = "failed"
             => /\ forward_queue' = forward_queue
                /\ IsPrefix(batch, forward_queue')
                /\ forward_queue' = Undelivered'
                /\ fwd_pc' = "sleep"
                /\ lock' = "free" ]_vars
    /\ [](last_op = "failed" => ENABLED ForwardTick)

\* C2 witness: a transmission failed with a non-empty queue.
C2_Witness ==
    last_op = "failed" /\ forward_queue # << >>

\* C3: while the mode is Returning no transmission is attempted or in flight,
\* and the ForwardQueue stays as it is for as long as the mode stays
\* Returning.
C3_ReturningSuppressesForward ==
    /\ [](returning => fwd_pc = "sleep")
    /\ [][ returning
             => /\ last_op' \notin {"forward", "sent", "failed"}
                /\ (returning' => forward_queue' = forward_queue) ]_vars

\* C3 witness: a forward tick passed while Returning with a non-empty queue.
C3_Witness ==
    returning /\ forward_queue # << >> /\ last_op = "skip"

\* C4: the lock is not held while the transmission is in flight, so the
\* other lock-taking operations can run during it.
C4_NoLockAcrossSend ==
    fwd_pc = "sending" => (lock = "free" /\ ENABLED BatterySimulation)

C6_ReturningIrreversible ==
    [][ (returning /\ ~returning') => last_op' = "reset" ]_vars

\* C6 witness: a battery tick passed while Returning with the level above a
\* lowered threshold.
C6_Witness ==
    returning /\ last_op = "battery" /\ battery > battery_threshold

\* C7: between resets the Active->Returning transition fires at most once,
\* in the first tick whose post-decrement level is <= threshold while Active;
\* ticks while Returning decrement without re-triggering; right after a tick,
\* level <= threshold implies Returning.
C7_TransitionOnce ==
    /\ [](/\ low_warnings <= 1
          /\ (last_op = "battery" /\ battery <= battery_threshold
                => returning))
    /\ [][ (~returning /\ returning')
             => /\ last_op' = "battery"
                /\ battery' <= battery_threshold
                /\ low_warnings = 0 ]_vars
    /\ [][ last_op' = "battery"
             => /\ battery' = Max(0, battery - BatteryStep)
                /\ (returning => returning' /\ low_warnings' = low_warnings)
                /\ (~returning /\ battery' > battery_threshold
                      => ~returning') ]_vars

\* C7 witness: the transition fired at the tick that brought the level down
\* to the threshold.
C7_Witness ==
    last_op = "battery" /\ returning /\ low_warnings = 1 /\ battery = battery_threshold

\* C8: the level is in [0, 100]; a tick lowers it by the step, or leaves it
\* at 0; only the reset raises it.
C8_LevelRange ==
    /\ [](battery >= 0 /\ battery <= BatteryFull)
    /\ [][ last_op' = "battery"
             => IF battery = 0 THEN battery' = 0
                ELSE battery' = battery - BatteryStep /\ battery' < battery
       ]_vars
    /\ [][ battery' > battery => last_op' = "reset" ]_vars

\* C8 witness: a tick at the floor.
C8_Witness ==
    last_op = "battery" /\ battery = 0

\* C9: the reset sets level 100 and Active and leaves the window, the
\* anomaly log, the queues and the threshold as they are; every forward
\* attempt carries all the summaries appended and not yet delivered, those
\* queued before a reset included.
C9_ResetFrame ==
    /\ [][ last_op' = "reset"
             => /\ battery' = BatteryFull
                /\ ~returning'
                /\ UNCHANGED << readings, anomalies, forward_queue,
                                sensor_data, battery_threshold >> ]_vars
    /\ [](fwd_pc = "sending" => batch = Undelivered /\ ~returning)

\* C9 witness: a reset with summaries in the queue.
C9_Witness ==
    last_op = "reset" /\ forward_queue # << >>

\* C10: a threshold change changes the threshold only; the next battery tick
\* compares the post-decrement level with the new value.
C10_ThresholdFrame ==
    /\ [][ last_op' = "threshold"
             => UNCHANGED << battery, returning, readings, sensor_data,
                             anomalies, forward_queue >> ]_vars
    /\ [][ last_op' = "battery"
             => /\ battery_threshold' = battery_threshold
                /\ returning' = (returning \/ battery' <= battery_threshold)
       ]_vars

\* C10 witness: the threshold was raised to the level or above and the mode
\* is still Active.
C10_Witness ==
    last_op = "threshold" /\ ~returning /\ battery <= battery_threshold

Min(a, b) == IF a <= b THEN a ELSE b

\* The last n entries of s.
LastN(s, n) == SubSeq(s, Len(s) - n + 1, Len(s))

\* C11: the window length is min(N, number of readings ingested so far) in
\* every reachable state, whatever the connections' interleaving.
C11_WindowLength ==
    Len(readings) = Min(maxlen, ingested)

\* C11 witness: more readings than the capacity were ingested, over two
\* connections.
C11_Witness ==
    /\ ingested > maxlen
    /\ Len(readings) = maxlen
    /\ \A c \in Conns : got[c] # << >>

\* C12: after k ingests the window is the last min(N, k) ingested readings in
\* order; an ingest at capacity removes the oldest reading and no other.
C12_WindowFifo ==
    /\ [](readings = LastN(ingest_log, Min(maxlen, Len(ingest_log))))
    /\ [][ (last_op' = "ingest" /\ Len(readings) = maxlen /\ maxlen > 0)
             => /\ Tail(readings) = SubSeq(readings', 1, maxlen - 1)
                /\ readings'[maxlen] = ingest_log'[Len(ingest_log')] ]_vars

\* C12 witness: an ingest at capacity has evicted a reading that differs from
\* the ones kept.
C12_Witness ==
    /\ last_op = "ingest"
    /\ Len(ingest_log) > maxlen
    /\ ingest_log[Len(ingest_log) - maxlen] \notin Range(readings)

\* C13: a line without the record shape is discarded: it never enters the
\* window, and the processing of readings goes on.
C13_MalformedDiscarded ==
    /\ \A i \in 1..Len(readings) : WellFormed(readings[i])
    /\ proc_pc # "dead"

\* The newline-terminated lines of a stream.
RECURSIVE CompleteLines(_)
CompleteLines(b) ==
    IF ~HasLine(b) THEN << >>
    ELSE << SplitLine(b) >> \o CompleteLines(SplitRest(b))

\* The values of the lines of a stream that parse, in stream order.
RECURSIVE ParsedLines(_)
ParsedLines(ls) ==
    IF ls = << >> THEN << >>
    ELSE IF ~DecodeFails(ls[1]) /\ LoadsOk(ls[1])
    THEN << Loads(ls[1]) >> \o ParsedLines(Tail(ls))
    ELSE ParsedLines(Tail(ls))

\* C14: when a connection's handler has ended other than by a network fault,
\* the readings it ingested are the lines of the whole stream that parse, in
\* stream order: a line that fails to parse does not stop the later lines.
C14_LinesIngested ==
    \A c \in Conns :
        conn[c] \in {"closed", "crashed"}
            => got[c] = ParsedLines(CompleteLines(stream[c]))

\* The states of a connection whose handler has ended.
Ended == {"closed", "faulted", "crashed"}

\* C15: a close or fault ends the reader of one connection only: the shared
\* state, with the readings already ingested, and the other connections are
\* as before, and the other readers and the accept loop can take their steps.
C15_ConnectionIsolation ==
    /\ [][ last_op' \in {"close", "fault", "decode_error"}
             => /\ \E c \in Conns :
                     /\ conn[c] = "open" /\ conn'[c] \in Ended
                     /\ \A d \in Conns \ {c} :
                           /\ conn'[d] = conn[d]
                           /\ buf'[d] = buf[d]
                /\ UNCHANGED << sensor_data, readings, anomalies,
                                forward_queue, ingest_log, got, pos, lock,
                                proc_pc, reading, fwd_pc, batch, battery,
                                returning, central >> ]_vars
    /\ [](\A c \in Conns :
             conn[c] \in Ended
                => \A d \in Conns \ {c} :
                      /\ conn[d] = "none"
                            => \A s \in StreamInputs : ENABLED Accept(d, s)
                      /\ (conn[d] = "open" /\ ~HasLine(buf[d])
                            /\ pos[d] < Len(stream[d]))
                            => ENABLED Recv(d, 1)
                      /\ (conn[d] = "open" /\ HasLine(buf[d])
                            /\ lock = "free")
                            => ENABLED HandleLine(d))

\* C15 witness: one connection has faulted after ingesting, and the other is
\* open and has ingested a reading since.
C15_Witness ==
    /\ last_op = "ingest"
    /\ conn[1] = "faulted" /\ got[1] # << >>
    /\ conn[2] = "open" /\ got[2] # << >>
    /\ ingest_log[Len(ingest_log)] \notin Range(got[1])

\* The sum of a field over a window, entry by entry.
TotalOf(w, field) ==
    LET RECURSIVE Upto(_)
        Upto(k) == IF k = 0 THEN 0 ELSE Upto(k - 1) + w[k][field]
    IN  Upto(Len(w))

\* a (in hundredths) is the mean of the field over w, to the nearest
\* hundredth.
IsMeanOf(a, w, field) ==
    LET d == a * Len(w) - 100 * TotalOf(w, field)
    IN  2 * d <= Len(w) /\ -2 * d <= Len(w)

\* C16: a processed reading is recorded as an anomaly iff temperature < -10
\* or temperature > 60 or humidity < 0 or humidity > 100, the bounds
\* themselves not being anomalous; nothing else adds to the anomaly log.
C16_AnomalyBounds ==
    /\ [][ last_op' = "process"
             => IF \/ reading.temperature < -10
                   \/ reading.temperature > 60
                   \/ reading.humidity < 0
                   \/ reading.humidity > 100
                THEN /\ Len(anomalies') = Len(anomalies) + 1
                     /\ anomalies'[Len(anomalies')].temperature
                           = reading.temperature
                     /\ anomalies'[Len(anomalies')].humidity
                           = reading.humidity
                     /\ anomalies'[Len(anomalies')].type = "anomaly"
                ELSE anomalies' = anomalies ]_vars
    /\ [][ anomalies' # anomalies => last_op' = "process" ]_vars

\* C16 witness: the readings on the bounds (60, 100) and (-10, 0) were
\* processed and the anomaly log is empty.
C16_Witness ==
    /\ processed = 2
    /\ anomalies = << >>
    /\ ingest_log =
          << [sensor_id |-> 1, temperature |-> 60, humidity |-> 100],
             [sensor_id |-> 1, temperature |-> -10, humidity |-> 0] >>

\* C17: an anomalous reading enters the window like any other, its detection
\* removes nothing from the window, and the averages of a summary are taken
\* over all the entries of the window, the anomalous ones included.
C17_AnomaliesInAverage ==
    /\ [][ (last_op' = "ingest" /\ maxlen > 0)
             => readings'[Len(readings')] = ingest_log'[Len(ingest_log')]
       ]_vars
    /\ [][ last_op' = "process"
             => /\ readings' = readings
                /\ (readings # << >>
                      => /\ IsMeanOf(summary'.avg_temp, readings,
                                     "temperature")
                         /\ IsMeanOf(summary'.avg_humid, readings,
                                     "humidity")) ]_vars

\* C17 witness: a summary was computed over a window that holds an anomalous
\* reading and a normal one.
C17_Witness ==
    /\ last_op = "process"
    /\ \E i, j \in 1..Len(readings) :
          /\ readings[i].temperature > 60
          /\ readings[j].temperature = 20 /\ readings[j].humidity = 50

\* C18: the averages of every summary are (0.0, 0.0) when the window is empty
\* at the computation and otherwise the means over the window as it is at
\* that moment; the summary that is queued is the one just computed.
C18_AverageOfWindow ==
    /\ [][ last_op' = "process"
             => /\ summary'.last_update = processed'
                /\ IF readings = << >>
                   THEN summary'.avg_temp = 0 /\ summary'.avg_humid = 0
                   ELSE /\ IsMeanOf(summary'.avg_temp, readings,
                                    "temperature")
                        /\ IsMeanOf(summary'.avg_humid, readings,
                                    "humidity")
                /\ (forward_queue' # forward_queue
                      => forward_queue' = Append(forward_queue, summary'))
       ]_vars
    /\ [][ summary' # summary => last_op' = "process" ]_vars

\* C18 witness: a summary was computed over an empty window.
C18_Witness ==
    /\ last_op = "process"
    /\ readings = << >>
    /\ summary.avg_temp = 0 /\ summary.avg_humid = 0
    /\ summary.last_update = 2

\* C19: the summaries delivered so far followed by the queue are the
\* summaries in the order of their appending, so every batch, and the batches
\* one after the other, keep that order, also after a failed attempt; a
\* snapshot in flight is the head of the queue.
C19_BatchOrder ==
    /\ appended = Delivered \o forward_queue
    /\ \A i, j \in 1..Len(Delivered) :
          i < j => Delivered[i].last_update < Delivered[j].last_update
    /\ fwd_pc = "sending" => IsPrefix(batch, forward_queue)

\* C19 witness: two batches were delivered one after the other.
C19_Witness ==
    last_op = "sent" /\ Len(central) = 2

\* C20: every forward attempt carries all the retained entries and those
\* appended since; and if the mode stays Active and transmissions stop
\* failing, every summary appended is eventually delivered and out of the
\* queue.
C20_EventuallyForwarded ==
    /\ [][ last_op' = "forward"
             => batch' = forward_queue /\ forward_queue = Undelivered ]_vars
    /\ (<>[](~returning) /\ <>[][last_op' # "failed"]_vars)
          => \A k \in 1..MaxReadings :
                [](Len(appended) >= k
                     => <>(Len(Delivered) >= k
                             /\ Len(forward_queue) <= Len(appended) - k))

\* C20 witness: two summaries, retained together, were delivered in one
\* batch.
C20_Witness ==
    /\ last_op = "sent"
    /\ Len(central) = 1
    /\ Len(appended) = 2
    /\ central[1] = appended

\* The readings #a to #b of the scenario.
ScenarioSlice(a, b) == SubSeq(ScenarioReadings, a, b)

\* C21: once the 12 readings of the scenario are ingested and processed with
\* capacity 10, the window has length 10 and is readings #3 to #12 (without
\* #1 and #2), the anomaly log has one entry, which is reading #1, and the
\* averages computed last are the means of readings #3 to #12.
C21_EndToEnd ==
    (ingested = 12 /\ processed = 12)
        => /\ maxlen = 10
           /\ Len(readings) = 10
           /\ readings = ScenarioSlice(3, 12)
           /\ \A i \in 1..Len(readings) :
                 /\ readings[i] # ScenarioReadings[1]
                 /\ readings[i] # ScenarioReadings[2]
           /\ Len(anomalies) = 1
           /\ anomalies[1].temperature = 100
           /\ anomalies[1].humidity = ScenarioReadings[1].humidity
           /\ anomalies[1].sensor_id = ScenarioReadings[1].sensor_id
           /\ anomalies[1].type = "anomaly"
           /\ 10 * summary.avg_temp
                 = 100 * TotalOf(ScenarioSlice(3, 12), "temperature")
           /\ 10 * summary.avg_humid
                 = 100 * TotalOf(ScenarioSlice(3, 12), "humidity")
           /\ summary.last_update = 12

\* C21 witness: the twelfth reading has just been processed, and reading #1
\* was processed after two more readings had arrived.
C21_Witness ==
    /\ last_op = "process"
    /\ ingested = 12 /\ processed = 12
    /\ Len(readings) = 10
    /\ Len(anomalies) = 1
    /\ Len(appended) = 12
    /\ appended[1].avg_temp = 4833

\* The readings processed so far that are outside the bounds, in the order of
\* their processing.
AnomalousProcessed ==
    SelectSeq(SubSeq(ingest_log, 1, processed),
              LAMBDA r : \/ r.temperature < -10 \/ r.temperature > 60
                         \/ r.humidity < 0 \/ r.humidity > 100)

\* An entry of a queue or batch is a summary and nothing else.
IsSummaryEntry(e) == DOMAIN e = {"avg_temp", "avg_humid", "last_update"}

\* C22: the anomaly log only grows at its end and holds one entry for each
\* anomalous reading processed so far, in order, whatever the mode and
\* whether or not the reading is still in the window; the ForwardQueue, the
\* snapshot in flight and every transmitted batch hold summaries only.
C22_AnomalyLogSeparate ==
    /\ [](/\ Len(anomalies) = Len(AnomalousProcessed)
          /\ \A i \in 1..Len(anomalies) :
                /\ anomalies[i].type = "anomaly"
                /\ anomalies[i].sensor_id = AnomalousProcessed[i].sensor_id
                /\ anomalies[i].temperature
                      = AnomalousProcessed[i].temperature
                /\ anomalies[i].humidity = AnomalousProcessed[i].humidity)
    /\ [][ IsPrefix(anomalies, anomalies') ]_vars
    /\ [](/\ \A i \in 1..Len(forward_queue) :
                IsSummaryEntry(forward_queue[i])
          /\ \A i \in 1..Len(batch) : IsSummaryEntry(batch[i])
          /\ \A i \in 1..Len(Delivered) : IsSummaryEntry(Delivered[i])
          /\ \A i \in 1..Len(anomalies) :
                ~IsSummaryEntry(anomalies[i]))

\* C22 witness: an anomalous reading was processed while Returning, after it
\* had been evicted from the window, and its anomaly is in the log.
C22_Witness ==
    /\ last_op = "process"
    /\ returning
    /\ maxlen >= 1
    /\ ingested - processed >= maxlen
    /\ anomalies # << >>
    /\ anomalies[Len(anomalies)].temperature = ingest_log[processed].temperature
    /\ \A i \in 1..Len(readings) :
          readings[i].temperature # ingest_log[processed].temperature

\* The number of readings the process loop holds (taken and not processed).
InHand == IF proc_pc = "get" THEN 0 ELSE 1

\* The readings are taken for processing in the order of their ingestion,
\* none twice and none skipped, and each connection's readings are ingested
\* in the order of its stream.
ProcessedInOrder ==
    /\ ingested = processed + InHand + Len(sensor_data)
    /\ sensor_data = LastN(ingest_log, Len(sensor_data))
    /\ InHand = 1 => reading = ingest_log[processed + 1]
    /\ \A c \in Conns :
          IsPrefix(got[c], ParsedLines(CompleteLines(stream[c])))

\* C23: every ingested reading is processed exactly once, in the order of
\* its appending to the window, so that each connection's readings are
\* appended and processed in the order sent; the summaries ever appended plus
\* the readings still pending are at most the readings ingested.
C23_ProcessedOnceInOrder ==
    /\ ProcessedInOrder
    /\ Len(appended) + Len(sensor_data) <= ingested
    /\ ~(proc_pc = "dead" /\ processed < ingested)

\* C24 (as claimed): with capacity N >= 1, when the summary of a reading is
\* computed the window is not empty and still contains that reading.
C24_WindowHoldsReading ==
    [][ (last_op' = "process" /\ maxlen >= 1)
          => /\ readings # << >>
             /\ \E i \in 1..Len(readings) : readings[i] = reading ]_vars

\* C24 (amended): with capacity N >= 1, the summary of a reading is computed
\* over the window as it is at the computation, which is never empty; the
\* reading is in that window iff fewer than N readings were ingested after
\* it, and otherwise the window is the N readings ingested last, all of them
\* after it.
C24_WindowAtComputation ==
    [][ (last_op' = "process" /\ maxlen >= 1)
          => /\ readings # << >>
             /\ readings' = readings
             /\ IsMeanOf(summary'.avg_temp, readings, "temperature")
             /\ IsMeanOf(summary'.avg_humid, readings, "humidity")
             /\ (forward_queue' # forward_queue
                   => forward_queue'[Len(forward_queue')] = summary')
             /\ LET after == ingested - processed - 1
                IN  IF after < maxlen
                    THEN /\ Len(readings) > after
                         /\ readings[Len(readings) - after] = reading
                    ELSE /\ Len(readings) = maxlen
                         /\ \A i \in 1..maxlen :
                               readings[i]
                                  = ingest_log[ingested - maxlen + i]
                         /\ processed + 1 < ingested - maxlen + 1 ]_vars

\* C24 witness: a summary was appended for a reading that later ingests had
\* evicted from the window before the computation.
C24_Witness ==
    /\ last_op = "process"
    /\ ~returning
    /\ maxlen >= 1
    /\ ingested - processed >= maxlen
    /\ appended # << >>
    /\ appended[Len(appended)] = summary
    /\ forward_queue # << >>
    /\ \A i \in 1..Len(readings) : readings[i] # ingest_log[processed]

====
